---- MODULE Spec2Model ----
(***************************************************************************)
(* Product catalog backend: the Create / Update / Delete handlers of       *)
(* routes/products.js over the product collection and the GridFS bucket    *)
(* of models/Product.js.                                                   *)
(*                                                                         *)
(* A handler runs to its next await in one step (JavaScript runs a         *)
(* callback to completion); every awaited GridFS or MongoDB operation      *)
(* completes in a later step of its own, successfully or with a fault.     *)
(* Fault model: a blob upload, a blob delete, a document read (findById)   *)
(* and a document write may each fail.                                     *)
(*                                                                         *)
(* Blob ids and product ids are ObjectIds, modelled as positive integers   *)
(* handed out in increasing order and never reused.  A referenceImage is   *)
(* NoRef (absent), LegacyUrl (a string that is no ObjectId) or a blob id;  *)
(* a payload's mainImage may also be NullRef (an explicit null).           *)
(* The image fields of the schema are typed ObjectId: save() and           *)
(* findByIdAndUpdate reject when a value fails the cast (CastError), and   *)
(* nothing is written.                                                     *)
(* Array indices are 1-based here: index idx stands for the code's idx-1.  *)
(***************************************************************************)
EXTENDS Integers, Sequences, FiniteSets, TLC

VARIABLES bucket, store, nextId, docs, nextPid, reqs, nreq

vars == <<bucket, store, nextId, docs, nextPid, reqs, nreq>>

(* ------------------------------ bounds -------------------------------- *)
MaxShades   == 2    \* longest shade list / most shade attachments of a request
MaxBlob     == 3    \* blob ids the bucket can hand out
MaxProd     == 1    \* product ids the collection can hand out
MaxRequests == 3    \* requests that arrive in one behaviour

(* ------------------------------ values -------------------------------- *)
NoRef       == 0    \* an image field that is absent / falsy
LegacyUrl   == -1   \* a truthy string that is not a valid ObjectId
NullRef     == -2   \* an explicit null in a payload: falsy, and not an absent key
MalformedId == -1   \* a :id path parameter ObjectId.isValid rejects

Slots    == 1..MaxRequests
ProdIds  == 1..MaxProd

IsObjectId(v) == v >= 1
Truthy(v)     == v \notin {NoRef, NullRef}

NoDoc == [exists |-> FALSE, mainImage |-> NoRef, shades |-> << >>]

\* req.files of a request that is not multipart: multer leaves it undefined
NoFiles == [present |-> FALSE, hasMain |-> FALSE, nShade |-> 0]
NoData  == [parse |-> "ok", mainImage |-> NoRef, shades |-> << >>]

Idle == [kind |-> "idle", id |-> 0, files |-> NoFiles, data |-> NoData,
         pc |-> "idle", product |-> NoDoc, mainId |-> NoRef,
         ops |-> << >>, out |-> << >>, tgt |-> << >>,
         resp |-> 0, why |-> "", delErr |-> "",
         nUp |-> 0, nDel |-> 0, nWrite |-> 0, clean |-> TRUE]

(* The ids a client can put in a payload: absent, a legacy URL, or any id   *)
(* the bucket has issued so far (live or already deleted).                  *)
PayloadRefs == {NoRef, LegacyUrl} \cup (1..(nextId - 1))

RECURSIVE SeqsUpTo(_, _)
SeqsUpTo(S, n) ==
    IF n = 0 THEN {<< >>}
    ELSE LET shorter == SeqsUpTo(S, n - 1)
         IN  shorter \cup {Append(q, x) : q \in {p \in shorter : Len(p) = n - 1}, x \in S}

Files == {NoFiles} \cup [present : {TRUE}, hasMain : BOOLEAN, nShade : 0..MaxShades]

(* req.body.product: unparsable JSON, JSON without a shades array, or a     *)
(* product tree of which the model keeps the image fields.                  *)
Payloads(mains) ==
    {[parse |-> "bad", mainImage |-> NoRef, shades |-> << >>],
     [parse |-> "noshades", mainImage |-> NoRef, shades |-> << >>]}
    \cup [parse : {"ok"}, mainImage : mains, shades : SeqsUpTo(PayloadRefs, MaxShades)]

(* ------------------------- models/Product.js -------------------------- *)
\* getBucket: returns the bucket, throws while it is unset
getBucket == bucket

\* uploadToGridFS up to its promise: throws in getBucket or opens the stream
UploadCall == IF getBucket THEN "pending" ELSE "throw"

\* the upload stream's 'finish': the file document exists under its _id
StoreAfterUpload_Lost(st, id) == st
StoreAfterUpload(st, id) == st \cup {id}

\* deleteFromGridFS up to bucket.delete: no-op on a falsy id, throws in
\* getBucket, rejects when new ObjectId(hexId) throws, else calls the bucket
DeleteCall(fileId) ==
    IF ~Truthy(fileId) THEN "noop"
    ELSE IF ~getBucket THEN "unavailable"
    ELSE IF ~IsObjectId(fileId) THEN "invalid"
    ELSE "pending"

\* bucket.delete's callback: an I/O error (the file stays), FileNotFound
\* for an id with no file, or no error (the file is gone)
DeleteOutcome(st, oid, fault) ==
    IF fault THEN "io"
    ELSE IF oid \notin st THEN "FileNotFound"
    ELSE "ok"

\* deleteFromGridFS's callback: any err rejects
DeleteResolves(outcome) == outcome = "ok"

StoreAfterDelete(st, oid, outcome) == IF outcome = "ok" THEN st \ {oid} ELSE st

(* ------------------------- routes/products.js ------------------------- *)
Respond(r, code, why) ==
    IF r.resp # 0 THEN r
    ELSE [r EXCEPT !.pc = "done", !.resp = code, !.why = why]

Pending(r) == {i \in DOMAIN r.ops : r.ops[i] \in {"del", "up"}}

\* the slot is free or its request has its response
Responded(r) == r.pc \in {"idle", "done"}

\* a slot whose request has responded and has no blob operation in flight
Finished(r) == r.pc \in {"idle", "done"} /\ Pending(r) = {}

\* req.files?.mainImage
HasMainImage_Always(files) == TRUE
HasMainImage(files) == files.present /\ files.hasMain

\* what is left of a request once the client has moved on: nothing when it
\* has settled; else the promises still running with what they captured
\* (the ids to delete) and the count of the calls made
Forget(r) ==
    IF Finished(r) THEN Idle
    ELSE IF ~Responded(r) THEN r
    ELSE [Idle EXCEPT !.kind = "past", !.pc = "done", !.resp = r.resp,
                      !.ops = [i \in DOMAIN r.ops |->
                                 IF i \in Pending(r) THEN r.ops[i] ELSE "none"],
                      !.tgt = r.tgt,
                      !.out = [i \in DOMAIN r.out |-> NoRef],
                      !.nUp = r.nUp, !.nDel = r.nDel, !.nWrite = r.nWrite]

\* shadeFiles[idx]: multer's shadeImages array is dense
ShadeHasFile_OffByOne(files, idx) == idx <= files.nShade + 1
ShadeHasFile(files, idx) == idx <= files.nShade

\* the id Update passes to deleteFromGridFS for the shade at idx
ShadeDeleteTarget(product, data, idx) == data.shades[idx]

\* the first call the mapper makes for the shade at idx
ShadeCall(r, idx) ==
    IF ~ShadeHasFile(r.files, idx) THEN "none"
    ELSE IF r.kind = "update" /\ Truthy(ShadeDeleteTarget(r.product, r.data, idx))
         THEN LET c == DeleteCall(ShadeDeleteTarget(r.product, r.data, idx))
              IN  IF c = "pending" THEN "del" ELSE c
    ELSE IF UploadCall = "pending" THEN "up" ELSE "unavailable"

\* an image field is typed ObjectId: a document holding a truthy value
\* that is no ObjectId does not validate
CastFails(main, shades) ==
    \/ (Truthy(main) /\ ~IsObjectId(main))
    \/ \E i \in DOMAIN shades : Truthy(shades[i]) /\ ~IsObjectId(shades[i])

\* data.mainImage as Update hands it to findByIdAndUpdate
UpdateMainImage(r) == IF HasMainImage(r.files) THEN r.mainId ELSE r.data.mainImage

\* the referenceImage a stored shade takes from an update that went on with
\* a value it could not cast: the field is left out
CastRef(v) == IF IsObjectId(v) THEN v ELSE NoRef

\* product.save() validates before it writes and rejects a document that
\* does not validate. Product.findByIdAndUpdate(id, data) casts data to the
\* schema before it writes: a mainImage that is no ObjectId rejects with a
\* CastError; a shade referenceImage that is no ObjectId either rejects the
\* same way or is dropped from the shade and the update goes on, by the
\* mongoose version installed (drop).
IssueWrite(r, drop) ==
    IF r.kind = "create" /\ CastFails(r.mainId, r.out)
    THEN Respond(r, 500, "cast")
    ELSE IF r.kind # "create" /\ CastFails(UpdateMainImage(r), IF drop THEN << >> ELSE r.out)
    THEN Respond(r, 500, "cast")
    ELSE [r EXCEPT !.pc = "write", !.nWrite = @ + 1]

\* Promise.all over the shade promises: rejects on the first rejection,
\* resolves when every promise has resolved
Settle_IgnoresRejection(r, drop) ==
    IF r.resp # 0 THEN r
    ELSE IF Pending(r) # {} THEN [r EXCEPT !.pc = "shades"]
    ELSE IssueWrite(r, drop)
Settle_NoWait(r, drop) ==
    IF r.resp # 0 THEN r
    ELSE IF \E i \in DOMAIN r.ops : r.ops[i] \in {"unavailable", "invalid", "fail"}
         THEN Respond(r, 500, "blob")
    ELSE IssueWrite(r, drop)
Settle(r, drop) ==
    IF r.resp # 0 THEN (IF r.kind = "past" THEN Forget(r) ELSE r)
    ELSE IF \E i \in DOMAIN r.ops : r.ops[i] \in {"unavailable", "invalid", "fail"}
         THEN Respond(r, 500, "blob")
    ELSE IF Pending(r) # {} THEN [r EXCEPT !.pc = "shades"]
    ELSE IssueWrite(r, drop)

FirstDelErr(r, ops) ==
    IF r.delErr # "" THEN r.delErr
    ELSE IF \E i \in DOMAIN ops : ops[i] = "unavailable" /\ r.kind = "update"
                                  /\ Truthy(r.data.shades[i]) THEN "unavailable"
    ELSE IF \E i \in DOMAIN ops : ops[i] = "invalid" THEN "invalid"
    ELSE ""

\* data.shades.map(...): every mapper call runs to its first await
BeginShades(r, drop) ==
    IF r.data.parse = "noshades" THEN Respond(r, 500, "TypeError")
    ELSE LET n    == Len(r.data.shades)
             ops  == [i \in 1..n |-> ShadeCall(r, i)]
             dels == {i \in 1..n : ShadeHasFile(r.files, i) /\ r.kind = "update"
                                      /\ Truthy(ShadeDeleteTarget(r.product, r.data, i))}
             ups  == {i \in 1..n : ShadeHasFile(r.files, i) /\ i \notin dels}
         IN  Settle([r EXCEPT !.ops = ops,
                              !.out = r.data.shades,
                              !.tgt = [i \in 1..n |->
                                         IF i \in dels
                                         THEN ShadeDeleteTarget(r.product, r.data, i)
                                         ELSE NoRef],
                              !.delErr = FirstDelErr(r, ops),
                              !.nDel = @ + Cardinality(dels),
                              !.nUp = @ + Cardinality(ups)], drop)

\* a request runs in the lowest slot that no handler and no promise of an
\* earlier request occupies; a sequential client sends its next request
\* once it has the response to the previous one
CanArrive(s, conc) ==
    /\ nreq < MaxRequests
    /\ Finished(reqs[s])
    /\ \A t \in Slots : t < s => ~Finished(reqs[t])
    /\ conc \/ \A t \in Slots : Responded(reqs[t])

\* the blob ids some stored product refers to
Referenced ==
    UNION {{docs[p].mainImage} \cup {docs[p].shades[i] : i \in DOMAIN docs[p].shades} :
           p \in {q \in ProdIds : docs[q].exists}}

\* every blob in the bucket is referred to by a stored product
NoOrphan == store \subseteq Referenced

\* the slot takes the new request; responses already delivered are forgotten.
\* clean records whether the request met a bucket without unreferenced blobs
\* and no promise of an earlier request still running.
Arrive(s, r) ==
    /\ reqs' = [t \in Slots |->
                  IF t = s
                  THEN [r EXCEPT !.clean = NoOrphan /\ \A u \in Slots : Finished(reqs[u])]
                                ELSE Forget(reqs[t])]
    /\ nreq' = nreq + 1

\* conn.once('open'): the bucket is created
ConnOpen ==
    /\ ~bucket
    /\ bucket' = TRUE
    /\ UNCHANGED <<store, nextId, docs, nextPid, reqs, nreq>>

\* POST /products up to its first await; data exists once JSON.parse ran,
\* and the payload's mainImage is overwritten by the uploaded id
CreateStart(r, data) ==
    IF ~HasMainImage(r.files) THEN Respond(r, 400, "nomain")
    ELSE IF data.parse = "bad" THEN Respond(r, 500, "parse")
    ELSE IF UploadCall = "throw"
         THEN Respond([r EXCEPT !.data = data, !.nUp = 1], 500, "unavailable")
    ELSE [r EXCEPT !.data = data, !.pc = "upmain", !.nUp = 1]

CreateArrive(s, conc) ==
    /\ CanArrive(s, conc)
    /\ \E files \in Files :
         \E data \in (IF files.hasMain THEN Payloads({NoRef}) ELSE {NoData}) :
           Arrive(s, CreateStart([Idle EXCEPT !.kind = "create", !.files = files], data))
    /\ UNCHANGED <<bucket, store, nextId, docs, nextPid>>

\* the main image's upload stream finishes or errors
MainUploadDone(s, fault) ==
    LET r == reqs[s] IN
    /\ r.pc = "upmain"
    /\ IF fault
       THEN /\ reqs' = [reqs EXCEPT ![s] = Respond(r, 500, "upload")]
            /\ UNCHANGED <<store, nextId>>
       ELSE /\ nextId <= MaxBlob
            /\ store' = StoreAfterUpload(store, nextId)
            /\ nextId' = nextId + 1
            /\ \E drop \in BOOLEAN :
                 reqs' = [reqs EXCEPT ![s] = BeginShades([r EXCEPT !.mainId = nextId], drop)]
    /\ UNCHANGED <<bucket, docs, nextPid, nreq>>

\* a shade image's upload stream finishes or errors
ShadeUploadDone(s, i, fault) ==
    LET r == reqs[s] IN
    /\ r.kind \in {"create", "update", "past"}
    /\ i \in DOMAIN r.ops
    /\ r.ops[i] = "up"
    /\ IF fault
       THEN /\ reqs' = [reqs EXCEPT ![s] = Settle([r EXCEPT !.ops[i] = "fail"], FALSE)]
            /\ UNCHANGED <<store, nextId>>
       ELSE /\ nextId <= MaxBlob
            /\ store' = StoreAfterUpload(store, nextId)
            /\ nextId' = nextId + 1
            /\ \E drop \in BOOLEAN :
                 reqs' = [reqs EXCEPT ![s] = Settle([r EXCEPT !.ops[i] = "ok",
                                                              !.out[i] = nextId], drop)]
    /\ UNCHANGED <<bucket, docs, nextPid, nreq>>

\* new Product({ ...data, mainImage: mainImageId, shades: updatedShades })
NewProduct_PayloadShades(r) ==
    [exists |-> TRUE, mainImage |-> r.mainId, shades |-> r.data.shades]
NewProduct(r) == [exists |-> TRUE, mainImage |-> r.mainId, shades |-> r.out]

\* product.save() completes
SaveDone(s, fault) ==
    LET r == reqs[s] IN
    /\ r.kind = "create"
    /\ r.pc = "write"
    /\ IF fault
       THEN /\ reqs' = [reqs EXCEPT ![s] = Respond(r, 500, "docfail")]
            /\ UNCHANGED <<docs, nextPid>>
       ELSE /\ nextPid <= MaxProd
            /\ docs' = [docs EXCEPT ![nextPid] = NewProduct(r)]
            /\ nextPid' = nextPid + 1
            /\ reqs' = [reqs EXCEPT ![s] = Respond([r EXCEPT !.id = nextPid], 201, "ok")]
    /\ UNCHANGED <<bucket, store, nextId, nreq>>

\* PUT and DELETE /products/:id up to their first await
LookupStart_Unchecked(r) == [r EXCEPT !.pc = "find"]
LookupStart(r) ==
    IF ~IsObjectId(r.id) THEN Respond(r, 400, "badid")
    ELSE [r EXCEPT !.pc = "find"]

UpdateArrive(s, conc) ==
    /\ CanArrive(s, conc)
    /\ \E id \in {MalformedId} \cup ProdIds :
         Arrive(s, LookupStart([Idle EXCEPT !.kind = "update", !.id = id]))
    /\ UNCHANGED <<bucket, store, nextId, docs, nextPid>>

DeleteArrive(s, conc) ==
    /\ CanArrive(s, conc)
    /\ \E id \in {MalformedId} \cup ProdIds :
         Arrive(s, LookupStart([Idle EXCEPT !.kind = "delete", !.id = id]))
    /\ UNCHANGED <<bucket, store, nextId, docs, nextPid>>

\* !product
ProductMissing_Never(product) == FALSE
ProductMissing(product) == ~product.exists

\* Update from the result of findById to its next await
UpdateLoaded(r, files, data, drop) ==
    IF ProductMissing(r.product) THEN Respond(r, 404, "notfound")
    ELSE IF data.parse = "bad" THEN Respond(r, 500, "parse")
    ELSE LET q == [r EXCEPT !.files = files, !.data = data] IN
         IF ~files.present THEN Respond(q, 500, "TypeError")
         ELSE IF ~HasMainImage(files) THEN BeginShades(q, drop)
         ELSE IF Truthy(q.product.mainImage)
              THEN IF DeleteCall(q.product.mainImage) = "pending"
                   THEN [q EXCEPT !.pc = "delmain", !.nDel = 1]
                   ELSE Respond([q EXCEPT !.nDel = 1,
                                          !.delErr = DeleteCall(q.product.mainImage)],
                                500, "blob")
         ELSE IF UploadCall = "throw" THEN Respond([q EXCEPT !.nUp = 1], 500, "unavailable")
         ELSE [q EXCEPT !.pc = "upmain", !.nUp = 1]

\* Product.findById(id) settles in Update; a rejection goes to the catch.
\* req.files and req.body.product are read from here on: the payload's
\* content is read only once req.files is found defined, and a payload
\* mainImage is overwritten when a main file is attached.
UpdateFound(s, fault) ==
    LET r == reqs[s] IN
    /\ r.kind = "update"
    /\ r.pc = "find"
    /\ IF fault
       THEN reqs' = [reqs EXCEPT ![s] = Respond(r, 500, "findfail")]
       ELSE \E files \in (IF docs[r.id].exists THEN Files ELSE {NoFiles}) :
              \E data \in (IF ~docs[r.id].exists THEN {NoData}
                           ELSE IF ~files.present
                                THEN {d \in Payloads({NoRef}) : d.shades = << >>}
                           ELSE IF files.hasMain THEN Payloads({NoRef})
                           ELSE Payloads({NoRef, NullRef, LegacyUrl}
                                         \cup (1..(nextId - 1)))) :
                \E drop \in BOOLEAN :
                  reqs' = [reqs EXCEPT ![s] = UpdateLoaded([r EXCEPT !.product = docs[r.id]],
                                                           files, data, drop)]
    /\ UNCHANGED <<bucket, store, nextId, docs, nextPid, nreq>>

\* deleteFromGridFS(product.mainImage) settles in Update
MainDeleteDone(s, fault) ==
    LET r   == reqs[s]
        res == DeleteOutcome(store, r.product.mainImage, fault)
    IN
    /\ r.pc = "delmain"
    /\ store' = StoreAfterDelete(store, r.product.mainImage, res)
    /\ reqs' = [reqs EXCEPT ![s] =
                  IF ~DeleteResolves(res)
                  THEN Respond([r EXCEPT !.delErr = res], 500, "blob")
                  ELSE IF UploadCall = "throw"
                       THEN Respond([r EXCEPT !.nUp = @ + 1], 500, "unavailable")
                  ELSE [r EXCEPT !.pc = "upmain", !.nUp = @ + 1]]
    /\ UNCHANGED <<bucket, nextId, docs, nextPid, nreq>>

\* deleteFromGridFS(shade.referenceImage) settles in Update's mapper, which
\* then calls uploadToGridFS; a rejection settled here never reaches the write
ShadeDeleteDone(s, i, fault) ==
    LET r   == reqs[s]
        res == DeleteOutcome(store, r.tgt[i], fault)
    IN
    /\ r.kind \in {"update", "past"}
    /\ i \in DOMAIN r.ops
    /\ r.ops[i] = "del"
    /\ store' = StoreAfterDelete(store, r.tgt[i], res)
    /\ reqs' = [reqs EXCEPT ![s] =
                  IF ~DeleteResolves(res)
                  THEN Settle([r EXCEPT !.ops[i] = "fail",
                                        !.delErr = IF @ = "" THEN res ELSE @], FALSE)
                  ELSE IF UploadCall = "throw"
                       THEN Settle([r EXCEPT !.ops[i] = "unavailable", !.nUp = @ + 1], FALSE)
                  ELSE [r EXCEPT !.ops[i] = "up", !.nUp = @ + 1]]
    /\ UNCHANGED <<bucket, nextId, docs, nextPid, nreq>>

\* the mainImage findByIdAndUpdate leaves: the stored one when data has no
\* such key, none when data.mainImage is null, else data.mainImage
WrittenMainImage(old, r) ==
    IF UpdateMainImage(r) = NoRef THEN old.mainImage
    ELSE IF UpdateMainImage(r) = NullRef THEN NoRef
    ELSE UpdateMainImage(r)

\* the document after findByIdAndUpdate(id, data): the fields data carries
\* are set, the others stay; a shade value the cast dropped is not stored
UpdatedProduct_KeepsShades(old, r) ==
    [exists |-> TRUE, mainImage |-> WrittenMainImage(old, r), shades |-> old.shades]
UpdatedProduct(old, r) ==
    [exists |-> TRUE, mainImage |-> WrittenMainImage(old, r),
     shades |-> [i \in DOMAIN r.out |-> CastRef(r.out[i])]]

\* Product.findByIdAndUpdate(id, data, { new: true }) completes; it writes
\* nothing and returns null when no document has the id
UpdateWriteDone_Upsert(s, fault) ==
    LET r == reqs[s] IN
    /\ r.kind = "update"
    /\ r.pc = "write"
    /\ IF fault
       THEN /\ reqs' = [reqs EXCEPT ![s] = Respond(r, 500, "docfail")]
            /\ UNCHANGED docs
       ELSE /\ docs' = [docs EXCEPT ![r.id] = UpdatedProduct(@, r)]
            /\ reqs' = [reqs EXCEPT ![s] = Respond(r, 200, "ok")]
    /\ UNCHANGED <<bucket, store, nextId, nextPid, nreq>>
UpdateWriteDone(s, fault) ==
    LET r == reqs[s] IN
    /\ r.kind = "update"
    /\ r.pc = "write"
    /\ IF fault
       THEN /\ reqs' = [reqs EXCEPT ![s] = Respond(r, 500, "docfail")]
            /\ UNCHANGED docs
       ELSE IF docs[r.id].exists
       THEN /\ docs' = [docs EXCEPT ![r.id] = UpdatedProduct(@, r)]
            /\ reqs' = [reqs EXCEPT ![s] = Respond(r, 200, "ok")]
       ELSE /\ reqs' = [reqs EXCEPT ![s] = Respond(r, 200, "null")]
            /\ UNCHANGED docs
    /\ UNCHANGED <<bucket, store, nextId, nextPid, nreq>>

\* toDelete: the main image if set, then every shade reference that is set
CollectToDelete_ShadesOnly(product) ==
    SelectSeq(product.shades, Truthy)
CollectToDelete(product) ==
    (IF Truthy(product.mainImage) THEN <<product.mainImage>> ELSE << >>)
    \o SelectSeq(product.shades, Truthy)

\* .catch(err => console.error(...)): a rejected delete is logged, and the
\* promise Promise.all sees resolves
DeleteRejectionAborts_Uncaught(settled) == settled # "ok"
DeleteRejectionAborts(settled) == FALSE

\* await Promise.all(toDelete.map(...)) has resolved: findByIdAndDelete is issued
IssueRemove(r) ==
    IF r.resp # 0 THEN r
    ELSE IF \E i \in DOMAIN r.ops : r.ops[i] # "del" /\ DeleteRejectionAborts(r.ops[i])
         THEN Respond(r, 500, "blob")
    ELSE IF Pending(r) # {} THEN [r EXCEPT !.pc = "blobs"]
    ELSE [r EXCEPT !.pc = "remove", !.nWrite = @ + 1]

\* Delete from the result of findById(id).lean() to its next await
DeleteLoaded(r) ==
    IF ProductMissing(r.product) THEN Respond(r, 404, "notfound")
    ELSE LET toDelete == CollectToDelete(r.product)
             ops == [i \in DOMAIN toDelete |->
                       IF DeleteCall(toDelete[i]) = "pending" THEN "del"
                       ELSE DeleteCall(toDelete[i])]
         IN  IssueRemove([r EXCEPT !.tgt = toDelete,
                                   !.ops = ops,
                                   !.nDel = Len(toDelete),
                                   !.delErr = IF \E i \in DOMAIN ops : ops[i] = "unavailable"
                                              THEN "unavailable" ELSE ""])

\* Product.findById(id).lean() settles in Delete; a rejection goes to the catch
DeleteFound(s, fault) ==
    LET r == reqs[s] IN
    /\ r.kind = "delete"
    /\ r.pc = "find"
    /\ reqs' = [reqs EXCEPT ![s] = IF fault THEN Respond(r, 500, "findfail")
                                   ELSE DeleteLoaded([r EXCEPT !.product = docs[r.id]])]
    /\ UNCHANGED <<bucket, store, nextId, docs, nextPid, nreq>>

\* one deleteFromGridFS(fileId) of Delete settles
BlobDeleteDone(s, i, fault) ==
    LET r   == reqs[s]
        res == DeleteOutcome(store, r.tgt[i], fault)
    IN
    /\ r.kind = "delete"
    /\ i \in DOMAIN r.ops
    /\ r.ops[i] = "del"
    /\ store' = StoreAfterDelete(store, r.tgt[i], res)
    /\ reqs' = [reqs EXCEPT ![s] =
                  IssueRemove([r EXCEPT !.ops[i] = IF DeleteResolves(res) THEN "ok" ELSE "fail",
                                        !.delErr = IF @ = "" /\ ~DeleteResolves(res)
                                                   THEN res ELSE @])]
    /\ UNCHANGED <<bucket, nextId, docs, nextPid, nreq>>

\* Product.findByIdAndDelete(id) completes; it returns null when no document
\* has the id
RemoveDone_IgnoresNull(s, fault) ==
    LET r == reqs[s] IN
    /\ r.kind = "delete"
    /\ r.pc = "remove"
    /\ IF fault
       THEN /\ reqs' = [reqs EXCEPT ![s] = Respond(r, 500, "docfail")]
            /\ UNCHANGED docs
       ELSE /\ docs' = [docs EXCEPT ![r.id] = NoDoc]
            /\ reqs' = [reqs EXCEPT ![s] = Respond(r, 200, "ok")]
    /\ UNCHANGED <<bucket, store, nextId, nextPid, nreq>>
RemoveDone(s, fault) ==
    LET r == reqs[s] IN
    /\ r.kind = "delete"
    /\ r.pc = "remove"
    /\ IF fault
       THEN /\ reqs' = [reqs EXCEPT ![s] = Respond(r, 500, "docfail")]
            /\ UNCHANGED docs
       ELSE IF docs[r.id].exists
       THEN /\ docs' = [docs EXCEPT ![r.id] = NoDoc]
            /\ reqs' = [reqs EXCEPT ![s] = Respond(r, 200, "ok")]
       ELSE /\ reqs' = [reqs EXCEPT ![s] = Respond(r, 500, "gone")]
            /\ UNCHANGED docs
    /\ UNCHANGED <<bucket, store, nextId, nextPid, nreq>>

Init ==
    /\ bucket = FALSE
    /\ store = {}
    /\ nextId = 1
    /\ docs = [p \in ProdIds |-> NoDoc]
    /\ nextPid = 1
    /\ reqs = [s \in Slots |-> Idle]
    /\ nreq = 0

Next ==
    \/ ConnOpen
    \/ \E s \in Slots : CreateArrive(s, FALSE)
    \/ \E s \in Slots, fault \in BOOLEAN : MainUploadDone(s, fault)
    \/ \E s \in Slots, i \in 1..MaxShades, fault \in BOOLEAN : ShadeUploadDone(s, i, fault)
    \/ \E s \in Slots, fault \in BOOLEAN : SaveDone(s, fault)
    \/ \E s \in Slots : UpdateArrive(s, FALSE)
    \/ \E s \in Slots, fault \in BOOLEAN : UpdateFound(s, fault)
    \/ \E s \in Slots, fault \in BOOLEAN : MainDeleteDone(s, fault)
    \/ \E s \in Slots, i \in 1..MaxShades, fault \in BOOLEAN : ShadeDeleteDone(s, i, fault)
    \/ \E s \in Slots, fault \in BOOLEAN : UpdateWriteDone(s, fault)
    \/ \E s \in Slots : DeleteArrive(s, FALSE)
    \/ \E s \in Slots, fault \in BOOLEAN : DeleteFound(s, fault)
    \/ \E s \in Slots, i \in 1..(MaxShades + 1), fault \in BOOLEAN : BlobDeleteDone(s, i, fault)
    \/ \E s \in Slots, fault \in BOOLEAN : RemoveDone(s, fault)

Spec == Init /\ [][Next]_vars

(* ------------------ concurrent clients, stored product ----------------- *)
\* The process starts on a database that holds one product, stored by a
\* Create of an earlier run (a main image, no shades); two more requests
\* arrive. The bucket is set once the connection's 'open' handler has built
\* it, and stays unset when the handler has not run or its constructor threw.
StoredProduct == [exists |-> TRUE, mainImage |-> 1, shades |-> << >>]

InitConc ==
    /\ bucket \in BOOLEAN
    /\ store = {1}
    /\ nextId = 2
    /\ docs = [p \in ProdIds |-> IF p = 1 THEN StoredProduct ELSE NoDoc]
    /\ nextPid = 2
    /\ reqs = [s \in Slots |-> Idle]
    /\ nreq = MaxRequests - 2

\* Update and Delete requests that arrive while another request is running
NextConc ==
    \/ ConnOpen
    \/ \E s \in Slots, fault \in BOOLEAN : MainUploadDone(s, fault)
    \/ \E s \in Slots, i \in 1..MaxShades, fault \in BOOLEAN : ShadeUploadDone(s, i, fault)
    \/ \E s \in Slots : UpdateArrive(s, TRUE)
    \/ \E s \in Slots, fault \in BOOLEAN : UpdateFound(s, fault)
    \/ \E s \in Slots, fault \in BOOLEAN : MainDeleteDone(s, fault)
    \/ \E s \in Slots, i \in 1..MaxShades, fault \in BOOLEAN : ShadeDeleteDone(s, i, fault)
    \/ \E s \in Slots, fault \in BOOLEAN : UpdateWriteDone(s, fault)
    \/ \E s \in Slots : DeleteArrive(s, TRUE)
    \/ \E s \in Slots, fault \in BOOLEAN : DeleteFound(s, fault)
    \/ \E s \in Slots, i \in 1..(MaxShades + 1), fault \in BOOLEAN : BlobDeleteDone(s, i, fault)
    \/ \E s \in Slots, fault \in BOOLEAN : RemoveDone(s, fault)

SpecConc == InitConc /\ [][NextConc]_vars

(* ------------------------------ claims -------------------------------- *)
Quiescent == \A s \in Slots : Finished(reqs[s])

Live(ref) == ref \in store

\* the references a product owns that are set
NumRefs(product) ==
    (IF Truthy(product.mainImage) THEN 1 ELSE 0)
    + Cardinality({i \in DOMAIN product.shades : Truthy(product.shades[i])})

Min(a, b) == IF a < b THEN a ELSE b

\* C1: whenever no request is in progress, the mainImage of every stored
\* product, if set, and every shade referenceImage that is a blob id, is the
\* id of a blob in the store.
C1_NoDanglingReference ==
    Quiescent =>
      \A p \in ProdIds :
        docs[p].exists =>
          /\ Truthy(docs[p].mainImage) => Live(docs[p].mainImage)
          /\ \A i \in DOMAIN docs[p].shades :
               IsObjectId(docs[p].shades[i]) => Live(docs[p].shades[i])

\* C2: a Create without a main-image attachment has responded 400 as soon
\* as it has arrived, with no uploadToGridFS or deleteFromGridFS call made
\* and no document write issued, whatever else the request carries.
C2_CreateWithoutMainImage ==
    \A s \in Slots :
      (reqs[s].kind = "create" /\ ~reqs[s].files.hasMain) =>
        /\ reqs[s].pc = "done"
        /\ reqs[s].resp = 400
        /\ reqs[s].nUp = 0
        /\ reqs[s].nDel = 0
        /\ reqs[s].nWrite = 0
        /\ reqs[s].ops = << >>

C2_Witness ==
    \E s \in Slots :
      /\ reqs[s].kind = "create"
      /\ ~reqs[s].files.hasMain
      /\ reqs[s].files.nShade > 0
      /\ reqs[s].resp = 400

\* C3: when a Create has responded 201, the stored document's mainImage is
\* the uploaded id and is in the store, and so is the referenceImage of
\* every shade that had an attachment.
C3_CreatedRefsLive ==
    \A s \in Slots :
      (reqs[s].kind = "create" /\ reqs[s].resp = 201) =>
        /\ docs[reqs[s].id].exists
        /\ docs[reqs[s].id].mainImage = reqs[s].mainId
        /\ Live(docs[reqs[s].id].mainImage)
        /\ \A i \in DOMAIN docs[reqs[s].id].shades :
             i <= reqs[s].files.nShade => Live(docs[reqs[s].id].shades[i])

C3_Witness ==
    \E s \in Slots :
      /\ reqs[s].kind = "create"
      /\ reqs[s].resp = 201
      /\ reqs[s].files.nShade >= 1
      /\ Len(docs[reqs[s].id].shades) >= 1
      /\ Live(docs[reqs[s].id].shades[1])

\* C4: in a Create that responded 201 with N shades and M < N attachments,
\* the shade at every index below M holds an id the bucket issued in this
\* request (after the main image's), not the client's value, and the shade
\* at every index from M on holds the payload's referenceImage.
C4_PositionalPairing ==
    \A s \in Slots :
      (/\ reqs[s].kind = "create"
       /\ reqs[s].resp = 201
       /\ reqs[s].files.nShade < Len(reqs[s].data.shades)) =>
        /\ Len(docs[reqs[s].id].shades) = Len(reqs[s].data.shades)
        /\ \A i \in DOMAIN reqs[s].data.shades :
             IF i <= reqs[s].files.nShade
             THEN /\ docs[reqs[s].id].shades[i] = reqs[s].out[i]
                  /\ reqs[s].ops[i] = "ok"
                  /\ docs[reqs[s].id].shades[i] > reqs[s].mainId
                  /\ \A j \in DOMAIN reqs[s].data.shades :
                       (j # i /\ j <= reqs[s].files.nShade) =>
                         docs[reqs[s].id].shades[j] # docs[reqs[s].id].shades[i]
             ELSE docs[reqs[s].id].shades[i] = reqs[s].data.shades[i]

C4_Witness ==
    \E s \in Slots :
      /\ reqs[s].kind = "create"
      /\ reqs[s].resp = 201
      /\ reqs[s].files.nShade = 1
      /\ Len(reqs[s].data.shades) = 2
      /\ reqs[s].data.shades[1] = LegacyUrl
      /\ IsObjectId(reqs[s].data.shades[2])
      /\ docs[reqs[s].id].shades[2] = reqs[s].data.shades[2]
      /\ IsObjectId(docs[reqs[s].id].shades[1])

\* C5: a Delete that found its product has called deleteFromGridFS once per
\* reference of the product that is set, on exactly those references, and
\* the document removal is issued only when every one of these calls has
\* settled, whichever of them failed.
C5_DeleteExhaustive ==
    \A s \in Slots :
      (reqs[s].kind = "delete" /\ reqs[s].product.exists) =>
        /\ reqs[s].nDel = NumRefs(reqs[s].product)
        /\ Len(reqs[s].tgt) = reqs[s].nDel
        /\ Truthy(reqs[s].product.mainImage) => reqs[s].tgt[1] = reqs[s].product.mainImage
        /\ \A i \in DOMAIN reqs[s].product.shades :
             Truthy(reqs[s].product.shades[i]) =>
               \E j \in DOMAIN reqs[s].tgt : reqs[s].tgt[j] = reqs[s].product.shades[i]
        /\ reqs[s].nWrite <= 1
        /\ reqs[s].nWrite = 1 => Pending(reqs[s]) = {}
        /\ reqs[s].nUp = 0

\* a Delete of a product with no reference set: no deleteFromGridFS call,
\* the removal issued and answered 200
C5_Witness ==
    \E s \in Slots :
      /\ reqs[s].kind = "delete"
      /\ reqs[s].product.exists
      /\ NumRefs(reqs[s].product) = 0
      /\ reqs[s].nDel = 0
      /\ reqs[s].nWrite = 1
      /\ reqs[s].resp = 200
      /\ ~docs[reqs[s].id].exists

\* a Delete of a product with its main image and two shade references set:
\* three calls, of which one failed and one succeeded, then the removal
C5_AllSet ==
    \E s \in Slots :
      /\ reqs[s].kind = "delete"
      /\ reqs[s].product.exists
      /\ reqs[s].nDel = 3
      /\ reqs[s].pc = "remove"
      /\ reqs[s].ops[1] = "fail"
      /\ reqs[s].ops[3] = "ok"

\* C6: a Delete that found its product always issues the document removal,
\* whichever blob deletes failed; unless the removal itself fails, the
\* document is gone and the response is 200.
C6_DeleteSurvivesBlobFailures ==
    \A s \in Slots :
      (reqs[s].kind = "delete" /\ reqs[s].product.exists /\ reqs[s].pc = "done") =>
        /\ reqs[s].nWrite = 1
        /\ reqs[s].why \in {"ok", "docfail"}
        /\ reqs[s].why = "ok" => (reqs[s].resp = 200 /\ ~docs[reqs[s].id].exists)

C6_Witness ==
    \E s \in Slots :
      /\ reqs[s].kind = "delete"
      /\ reqs[s].resp = 200
      /\ ~docs[reqs[s].id].exists
      /\ \E i \in DOMAIN reqs[s].ops : reqs[s].ops[i] = "fail"
      /\ \E i \in DOMAIN reqs[s].ops : reqs[s].ops[i] = "ok"

\* C7: deleteFromGridFS never rejects because the id has no file: a second
\* delete of an id, or a delete of an id that was never stored, resolves.
C7_DeleteIdempotent ==
    \A s \in Slots : reqs[s].delErr # "FileNotFound"

\* C8: in an Update, the id passed to deleteFromGridFS for a shade index
\* with an attachment is the referenceImage of the stored product's shade
\* at that index, when that is set.
C8_DeletesStoredShadeBlob ==
    \A s \in Slots :
      reqs[s].kind = "update" =>
        \A i \in DOMAIN reqs[s].ops :
          (/\ ShadeHasFile(reqs[s].files, i)
           /\ i \in DOMAIN reqs[s].product.shades
           /\ Truthy(reqs[s].product.shades[i])) =>
            reqs[s].tgt[i] = reqs[s].product.shades[i]

\* the calls an Update makes for its shades without an attachment: none
NoCallForUntouched(s) ==
    /\ \A i \in DOMAIN reqs[s].ops :
         ~(i <= reqs[s].files.nShade) =>
           /\ reqs[s].ops[i] = "none"
           /\ reqs[s].tgt[i] = NoRef
           /\ reqs[s].out[i] = reqs[s].data.shades[i]
    /\ reqs[s].nDel + reqs[s].nUp
         <= (IF reqs[s].files.hasMain THEN 2 ELSE 0)
            + 2 * Min(reqs[s].files.nShade, Len(reqs[s].data.shades))

C9_DroppedValue ==
    \E s \in Slots :
      /\ reqs[s].kind = "update"
      /\ reqs[s].resp = 200
      /\ reqs[s].why = "ok"
      /\ Len(reqs[s].data.shades) = 1
      /\ reqs[s].files.nShade = 0
      /\ reqs[s].data.shades[1] = LegacyUrl
      /\ docs[reqs[s].id].shades[1] = NoRef
C9_CastRejected ==
    \E s \in Slots :
      /\ reqs[s].kind = "update"
      /\ reqs[s].resp = 500
      /\ reqs[s].why = "cast"
      /\ reqs[s].nWrite = 0
      /\ reqs[s].data.mainImage # LegacyUrl
      /\ \E i \in DOMAIN reqs[s].data.shades : reqs[s].data.shades[i] = LegacyUrl
      /\ docs[reqs[s].id] = reqs[s].product

\* C10: an Update or Delete whose findById found no product has responded
\* 404, with no uploadToGridFS or deleteFromGridFS call made and no
\* document write or removal issued.
C10_NotFound ==
    \A s \in Slots :
      (/\ reqs[s].kind \in {"update", "delete"}
       /\ IsObjectId(reqs[s].id)
       /\ reqs[s].pc # "find"
       /\ reqs[s].why # "findfail"
       /\ ~reqs[s].product.exists) =>
        /\ reqs[s].pc = "done"
        /\ reqs[s].resp = 404
        /\ reqs[s].nUp = 0
        /\ reqs[s].nDel = 0
        /\ reqs[s].nWrite = 0
        /\ reqs[s].ops = << >>

C10_Witness ==
    \E s \in Slots :
      /\ reqs[s].kind = "update"
      /\ reqs[s].resp = 404
      /\ nextPid > 1
      /\ store # {}

\* the uploadToGridFS calls of a Create or Update that threw or rejected:
\* those made, less those that resolved and those still in flight
UploadsFailed(r) ==
    r.nUp - (IF r.mainId # NoRef THEN 1 ELSE 0) - (IF r.pc = "upmain" THEN 1 ELSE 0)
          - Cardinality({i \in DOMAIN r.ops : r.ops[i] \in {"ok", "up"}})

\* the blob ids the uploads of a Create or Update resolved to
OwnUploads(r) ==
    (IF Truthy(r.mainId) THEN {r.mainId} ELSE {})
    \cup {r.out[i] : i \in {j \in DOMAIN r.ops : r.ops[j] = "ok"}}

\* C11: an Update in which a deleteFromGridFS call failed, and in which no
\* upload and no document write failed, ends with the success response and
\* has issued its document write.
C11_UpdateDeleteFailureNonFatal ==
    \A s \in Slots :
      (/\ reqs[s].kind = "update"
       /\ reqs[s].pc = "done"
       /\ reqs[s].delErr # ""
       /\ UploadsFailed(reqs[s]) = 0
       /\ reqs[s].why # "docfail") =>
        /\ reqs[s].resp = 200
        /\ reqs[s].nWrite = 1

\* C12: when an Update without a main-image attachment has responded 200,
\* the stored product's mainImage is the one the Update loaded, whatever
\* mainImage the payload carries.
C12_MainImageUntouched ==
    \A s \in Slots :
      (/\ reqs[s].kind = "update"
       /\ reqs[s].resp = 200
       /\ reqs[s].why = "ok"
       /\ ~reqs[s].files.hasMain) =>
        docs[reqs[s].id].mainImage = reqs[s].product.mainImage

\* C14: a Create or Update in which an uploadToGridFS call failed has
\* responded 500 and issues no document write: Create has stored no product
\* and Update's document is as it was loaded; the request asks for no
\* delete of a blob its other uploads stored, and while no later request
\* has arrived these blobs are in the bucket.
C14_UploadFailureFatal ==
    \A s \in Slots :
      (reqs[s].kind \in {"create", "update"} /\ UploadsFailed(reqs[s]) > 0) =>
        /\ reqs[s].pc = "done"
        /\ reqs[s].resp = 500
        /\ reqs[s].nWrite = 0
        /\ reqs[s].kind = "create" => reqs[s].id = 0
        /\ (reqs[s].kind = "update" /\ \A t \in Slots \ {s} : reqs[t].kind = "idle") =>
             docs[reqs[s].id] = reqs[s].product
        /\ \A u \in OwnUploads(reqs[s]) :
             /\ \A i \in DOMAIN reqs[s].tgt : reqs[s].tgt[i] # u
             /\ reqs[s].product.mainImage # u
             /\ (\A t \in Slots \ {s} : reqs[t].kind = "idle") => Live(u)

C14_Witness ==
    \E s \in Slots :
      /\ reqs[s].kind = "update"
      /\ reqs[s].resp = 500
      /\ UploadsFailed(reqs[s]) = 1
      /\ Truthy(reqs[s].mainId)
      /\ Live(reqs[s].mainId)
      /\ reqs[s].mainId \notin Referenced
      /\ \E i \in DOMAIN reqs[s].ops : reqs[s].ops[i] = "fail"
      /\ docs[reqs[s].id] = reqs[s].product

\* C15: when a request that met a bucket without unreferenced blobs has
\* ended with a success response, and none of its blob calls failed, every
\* blob in the bucket is referred to by a stored product.
C15_NoOrphanAfterSuccess ==
    \A s \in Slots :
      (/\ reqs[s].pc = "done"
       /\ reqs[s].resp \in {200, 201}
       /\ reqs[s].why = "ok"
       /\ reqs[s].clean
       /\ reqs[s].delErr = ""
       /\ \A i \in DOMAIN reqs[s].ops : reqs[s].ops[i] \in {"none", "ok"}) =>
        NoOrphan

\* C16: an Update or Delete whose :id is no ObjectId has responded 400 as
\* soon as it has arrived: no findById was issued, no uploadToGridFS or
\* deleteFromGridFS call was made and no document write or removal issued.
C16_MalformedId ==
    \A s \in Slots :
      (reqs[s].kind \in {"update", "delete"} /\ ~IsObjectId(reqs[s].id)) =>
        /\ reqs[s].pc = "done"
        /\ reqs[s].resp = 400
        /\ ~reqs[s].product.exists
        /\ reqs[s].nUp = 0
        /\ reqs[s].nDel = 0
        /\ reqs[s].nWrite = 0
        /\ reqs[s].ops = << >>

C16_Witness ==
    \E s \in Slots :
      /\ reqs[s].kind = "delete"
      /\ reqs[s].id = MalformedId
      /\ reqs[s].resp = 400
      /\ \E p \in ProdIds : docs[p].exists
      /\ store # {}

\* C17: a request issues at most one document write (save, findByIdAndUpdate
\* or findByIdAndDelete), and from the moment it is issued no upload or
\* delete call of the request is in flight; shade uploads may complete in
\* any order.
C17_WriteIsLast ==
    \A s \in Slots :
      /\ reqs[s].nWrite <= 1
      /\ reqs[s].nWrite = 1 =>
           /\ Pending(reqs[s]) = {}
           /\ reqs[s].pc \in {"write", "remove", "done"}
      /\ reqs[s].pc \in {"write", "remove"} => reqs[s].nWrite = 1

C17_Witness ==
    \E s \in Slots :
      /\ reqs[s].kind = "create"
      /\ reqs[s].pc = "write"
      /\ Len(reqs[s].out) = 2
      /\ reqs[s].ops = <<"ok", "ok">>
      /\ reqs[s].out[1] > reqs[s].out[2]

\* C13: a request that made a blob call while the bucket was unset ends
\* with an error response and issues no document write or removal.
C13_UnavailableNoPartialWork ==
    \A s \in Slots :
      (\/ reqs[s].why = "unavailable"
       \/ reqs[s].delErr = "unavailable"
       \/ \E i \in DOMAIN reqs[s].ops : reqs[s].ops[i] = "unavailable") =>
        /\ reqs[s].nWrite = 0
        /\ reqs[s].pc = "done"
        /\ reqs[s].resp = 500
        /\ reqs[s].kind \in {"update", "delete"} => docs[reqs[s].id] = reqs[s].product

\* C18: when two Updates of one product have both responded 200, the stored
\* shades are exactly the ones one of the two wrote: nothing of the other
\* Update's shades is merged in.
C18_LastWriteWins ==
    \A s, t \in Slots :
      (/\ s # t
       /\ reqs[s].kind = "update" /\ reqs[t].kind = "update"
       /\ reqs[s].id = reqs[t].id
       /\ reqs[s].resp = 200 /\ reqs[t].resp = 200
       /\ reqs[s].why = "ok" /\ reqs[t].why = "ok") =>
        /\ docs[reqs[s].id].exists
        /\ \E w \in {s, t} :
             docs[reqs[w].id].shades = [i \in DOMAIN reqs[w].out |-> CastRef(reqs[w].out[i])]

\* both Updates uploaded a shade image and succeeded, the document holds
\* the one's blob, and the other's blob is in the bucket with no reference
C18_Witness ==
    \E s, t \in Slots :
      /\ s # t
      /\ reqs[s].kind = "update" /\ reqs[t].kind = "update"
      /\ reqs[s].id = reqs[t].id
      /\ reqs[s].resp = 200 /\ reqs[t].resp = 200
      /\ reqs[s].why = "ok" /\ reqs[t].why = "ok"
      /\ reqs[s].ops = <<"ok">> /\ reqs[t].ops = <<"ok">>
      /\ docs[reqs[t].id].shades = <<reqs[t].out[1]>>
      /\ Live(reqs[s].out[1])
      /\ reqs[s].out[1] \notin Referenced

\* C19: a Delete has responded 200 only if its own findByIdAndDelete removed
\* the document, a Delete whose removal found no document has responded
\* 500, and of two Deletes of one product at most one has responded 200.
C19_OneDeleteSucceeds ==
    /\ \A s \in Slots :
         reqs[s].kind = "delete" =>
           /\ reqs[s].resp = 200 => (reqs[s].why = "ok" /\ reqs[s].nWrite = 1
                                      /\ ~docs[reqs[s].id].exists)
           /\ reqs[s].why = "gone" => reqs[s].resp = 500
    /\ \A s, t \in Slots :
         (/\ s # t
          /\ reqs[s].kind = "delete" /\ reqs[t].kind = "delete"
          /\ reqs[s].id = reqs[t].id) =>
           ~(reqs[s].resp = 200 /\ reqs[t].resp = 200)

C19_Witness ==
    \E s, t \in Slots :
      /\ s # t
      /\ reqs[s].kind = "delete" /\ reqs[t].kind = "delete"
      /\ reqs[s].id = reqs[t].id
      /\ reqs[s].resp = 200
      /\ reqs[t].resp = 500
      /\ reqs[t].why = "gone"
      /\ reqs[t].product.exists

\* C20: no step brings back a product that was removed: an id the
\* collection has handed out and that has no document has none after the
\* step either.
C20_NeverRecreated ==
    [][\A p \in ProdIds : (p < nextPid /\ ~docs[p].exists) => ~docs'[p].exists]_vars

\* an Update loaded the product, a Delete removed it and responded 200, and
\* the Update's findByIdAndUpdate then wrote nothing
C20_Witness ==
    \E s, t \in Slots :
      /\ reqs[s].kind = "update"
      /\ reqs[s].product.exists
      /\ reqs[s].why = "null"
      /\ reqs[t].kind = "delete"
      /\ reqs[t].id = reqs[s].id
      /\ reqs[t].resp = 200
      /\ ~docs[reqs[s].id].exists

====
